---------------------------- MODULE Spec2Model ----------------------------
(***************************************************************************)
(* Model of the Instagram Chat Analyzer (src/src/App.tsx): the upload      *)
(* callback that parses, decodes and groups the messages of a chat export, *)
(* and the derived views computed from the held dataset on every render    *)
(* (sender ranking, top messages, earliest and latest messages).           *)
(*                                                                         *)
(* Representation.                                                         *)
(*   - A JavaScript string is a sequence of code points (naturals).        *)
(*   - A JavaScript object used as a dictionary is the sequence of its own *)
(*     properties [key, val] in creation order; the order in which         *)
(*     Object.keys/entries/values enumerate them is computed by OwnKeys    *)
(*     (array-index keys first, ascending, then the others in creation     *)
(*     order).  Keys are never names of Object.prototype members.          *)
(*   - A message is a record; an absent JSON field is a field missing from *)
(*     the record's domain.                                                *)
(***************************************************************************)
EXTENDS Integers, Sequences, FiniteSets, TLC

VARIABLES
  data,             \* useState<UserMessages | null>: [isNull, obj]
  inflight,         \* file contents whose FileReader.readAsText is pending
  last,             \* the latest run of reader.onload: its file and outcome
  allMessages,      \* Object.values(data).flat() of the latest render
  count,            \* the count handed to the chronological selectors
  latestMessages,   \* getLatestMessages(allMessages, count)
  earliestMessages, \* getEarliestMessages(allMessages, count)
  pc                \* "call" before the selectors have run, "done" after

vars == <<data, inflight, last, allMessages, count, latestMessages,
          earliestMessages, pc>>

-----------------------------------------------------------------------------
(* Bounds of the model *)

MaxMsgs == 2
\* messages per file in the upload life cycle
MaxInFlight == 2
\* file reads pending at the same time
MaxLen == 2
\* messages of the varied tail of a file in the single-upload specification
MaxDistinct == 9
\* distinct senders and contents of the fixed head of such a file
MaxChrono == 4
\* messages handed to the chronological selectors
MaxTime == 2
\* largest timestamp_ms of those messages
MaxCount == 5
\* largest count handed to the chronological selectors (the least is -MaxCount)

(* Program constants *)

TopLimit == 7
\* .slice(0, 7) of both rankings
RenderCount == 4
\* getLatestMessages(allMessages, 4) and getEarliestMessages(allMessages, 4)

-----------------------------------------------------------------------------
(* Generic sequence helpers *)

Range(s) == {s[i] : i \in 1..Len(s)}

Slice(s, from, to) ==
  \* elements from+1 .. to of s (0-based half-open interval [from, to))
  IF to <= from THEN <<>> ELSE [i \in 1..(to - from) |-> s[from + i]]

RECURSIVE Flat(_)
Flat(ss) == IF ss = <<>> THEN <<>> ELSE Head(ss) \o Flat(Tail(ss))

RECURSIVE SelectSeqBy(_, _)
SelectSeqBy(s, keep) ==
  \* the subsequence of s at the positions in the set keep
  IF s = <<>> THEN <<>>
  ELSE SelectSeqBy(SubSeq(s, 1, Len(s) - 1), keep)
         \o (IF Len(s) \in keep THEN <<s[Len(s)]>> ELSE <<>>)

-----------------------------------------------------------------------------
(* JavaScript built-ins used by the program *)

\* Array.prototype.slice(start, end) with relative (negative) indices.
RelIndex(k, len) ==
  IF k < 0 THEN (IF len + k < 0 THEN 0 ELSE len + k)
  ELSE (IF k > len THEN len ELSE k)

ArraySlice(s, start, end) == Slice(s, RelIndex(start, Len(s)), RelIndex(end, Len(s)))

\* slice(start) with the end omitted.  JavaScript has no integer -0 distinct
\* from 0 here: slice(-0) is slice(0).
ArraySliceFrom(s, start) == Slice(s, RelIndex(start, Len(s)), Len(s))

\* White space and line terminators removed by String.prototype.trim.
WhiteSpace ==
  {9, 10, 11, 12, 13, 32, 160, 5760, 8232, 8233, 8239, 8287, 12288, 65279}
    \cup (8192..8202)

RECURSIVE TrimStart(_)
TrimStart(s) ==
  IF s /= <<>> /\ Head(s) \in WhiteSpace THEN TrimStart(Tail(s)) ELSE s

RECURSIVE TrimEnd(_)
TrimEnd(s) ==
  IF s /= <<>> /\ s[Len(s)] \in WhiteSpace
  THEN TrimEnd(SubSeq(s, 1, Len(s) - 1)) ELSE s

StringTrim(s) == TrimEnd(TrimStart(s))

\* String.prototype.toLowerCase on the code points the model uses: ASCII and
\* Latin-1 capitals, and the Kelvin sign, which lowercases to ASCII k.
LowerChar(c) ==
  IF c \in 65..90 THEN c + 32
  ELSE IF c \in (192..222) \ {215} THEN c + 32
  ELSE IF c = 8490 THEN 107
  ELSE c

ToLowerCase(s) == [i \in 1..Len(s) |-> LowerChar(s[i])]

\* String.prototype.includes
Includes(s, sub) ==
  \E i \in 0..(Len(s) - Len(sub)) : SubSeq(s, i + 1, i + Len(sub)) = sub

\* /[^\u0000-\u007F]/.test(s)
HasNonAscii(s) == \E i \in 1..Len(s) : s[i] > 127

-----------------------------------------------------------------------------
(* utf8.decode of the utf8 package (imported at App.tsx line 22): each     *)
(* code point of the argument is taken as a byte (its low 8 bits) and the  *)
(* byte stream is decoded as UTF-8; an ill-formed stream throws.           *)

IsContinuation(b) == b % 256 \in 128..191

ContinuationBits(b) == (b % 256) - 128

\* decodeSymbol at the head of bytes: [ok, cp, used]; ok = FALSE is a throw.
DecodeSymbol(bytes) ==
  LET b1 == bytes[1] % 256
      n  == Len(bytes)
      Bad == [ok |-> FALSE, cp |-> 0, used |-> 0]
  IN  IF b1 < 128 THEN [ok |-> TRUE, cp |-> b1, used |-> 1]
      ELSE IF b1 \in 192..223 THEN
        IF n >= 2 /\ IsContinuation(bytes[2])
        THEN LET cp == (b1 - 192) * 64 + ContinuationBits(bytes[2])
             IN  IF cp >= 128 THEN [ok |-> TRUE, cp |-> cp, used |-> 2] ELSE Bad
        ELSE Bad
      ELSE IF b1 \in 224..239 THEN
        IF n >= 3 /\ IsContinuation(bytes[2]) /\ IsContinuation(bytes[3])
        THEN LET cp == (b1 - 224) * 4096 + ContinuationBits(bytes[2]) * 64
                         + ContinuationBits(bytes[3])
             IN  IF cp >= 2048 /\ cp \notin 55296..57343
                 THEN [ok |-> TRUE, cp |-> cp, used |-> 3] ELSE Bad
        ELSE Bad
      ELSE IF b1 \in 240..247 THEN
        IF n >= 4 /\ IsContinuation(bytes[2]) /\ IsContinuation(bytes[3])
                  /\ IsContinuation(bytes[4])
        THEN LET cp == (b1 - 240) * 262144 + ContinuationBits(bytes[2]) * 4096
                         + ContinuationBits(bytes[3]) * 64
                         + ContinuationBits(bytes[4])
             IN  IF cp >= 65536 /\ cp <= 1114111
                 THEN [ok |-> TRUE, cp |-> cp, used |-> 4] ELSE Bad
        ELSE Bad
      ELSE Bad

\* utf8.decode(byteString): [ok, val]; ok = FALSE models the thrown Error.
RECURSIVE Utf8Decode(_)
Utf8Decode(bytes) ==
  IF bytes = <<>> THEN [ok |-> TRUE, val |-> <<>>]
  ELSE LET d == DecodeSymbol(bytes)
       IN  IF ~d.ok THEN [ok |-> FALSE, val |-> <<>>]
           ELSE LET rest == Utf8Decode(SubSeq(bytes, d.used + 1, Len(bytes)))
                IN  IF rest.ok
                    THEN [ok |-> TRUE, val |-> <<d.cp>> \o rest.val]
                    ELSE [ok |-> FALSE, val |-> <<>>]

-----------------------------------------------------------------------------
(* JavaScript objects used as dictionaries *)

EmptyObject == <<>>

HasOwn(o, k) == \E i \in 1..Len(o) : o[i].key = k

ObjGet(o, k) == o[CHOOSE i \in 1..Len(o) : o[i].key = k].val

\* o[k] = v: an existing property keeps its place, a new one is created last.
ObjSet(o, k, v) ==
  IF HasOwn(o, k)
  THEN [i \in 1..Len(o) |-> IF o[i].key = k THEN [key |-> k, val |-> v] ELSE o[i]]
  ELSE Append(o, [key |-> k, val |-> v])

IsDigits(s) == \A i \in 1..Len(s) : s[i] \in 48..57

\* Lexicographic order of two digit strings of the same length.
RECURSIVE DigitsLess(_, _)
DigitsLess(a, b) ==
  IF a = <<>> THEN FALSE
  ELSE IF Head(a) /= Head(b) THEN Head(a) < Head(b)
  ELSE DigitsLess(Tail(a), Tail(b))

\* Numeric order of two canonical decimal strings.
IndexLess(a, b) ==
  IF Len(a) /= Len(b) THEN Len(a) < Len(b) ELSE DigitsLess(a, b)

\* "4294967294", the decimal form of 2^32 - 2.
MaxArrayIndex == <<52, 50, 57, 52, 57, 54, 55, 50, 57, 52>>

\* A property key that is an array index: the canonical decimal form of an
\* integer in 0 .. 2^32 - 2.
IsArrayIndex(k) ==
  /\ k /= <<>>
  /\ IsDigits(k)
  /\ (Len(k) > 1 => k[1] /= 48)
  /\ ~IndexLess(MaxArrayIndex, k)

\* Positions of o's properties in the order of OrdinaryOwnPropertyKeys.
RECURSIVE InsertByIndex(_, _, _)
InsertByIndex(o, sorted, i) ==
  \* insert position i among the array-index positions, ascending by value
  IF sorted = <<>> THEN <<i>>
  ELSE IF IndexLess(o[i].key, o[Head(sorted)].key)
       THEN <<i>> \o sorted
       ELSE <<Head(sorted)>> \o InsertByIndex(o, Tail(sorted), i)

RECURSIVE IndexPositions(_, _)
IndexPositions(o, n) ==
  IF n = 0 THEN <<>>
  ELSE IF IsArrayIndex(o[n].key)
       THEN InsertByIndex(o, IndexPositions(o, n - 1), n)
       ELSE IndexPositions(o, n - 1)

OwnKeys(o) ==
  LET idx == IndexPositions(o, Len(o))
      others == SelectSeqBy([i \in 1..Len(o) |-> i],
                            {i \in 1..Len(o) : ~IsArrayIndex(o[i].key)})
  IN  idx \o others

ObjectEntries(o) == LET p == OwnKeys(o) IN [i \in 1..Len(p) |-> o[p[i]]]

ObjectKeys(o) == LET e == ObjectEntries(o) IN [i \in 1..Len(e) |-> e[i].key]

ObjectValues(o) == LET e == ObjectEntries(o) IN [i \in 1..Len(e) |-> e[i].val]

\* Array.prototype.sort is stable.  SortPositions(keys) is the order in which
\* sort((a, b) => key(a) - key(b)) leaves the positions of an array whose
\* elements have these integer keys: ascending by key, ties in array order.
RECURSIVE InsertPosition(_, _, _)
InsertPosition(keys, sorted, i) ==
  IF sorted = <<>> THEN <<i>>
  ELSE IF keys[i] < keys[sorted[Len(sorted)]]
       THEN InsertPosition(keys, SubSeq(sorted, 1, Len(sorted) - 1), i)
              \o <<sorted[Len(sorted)]>>
       ELSE sorted \o <<i>>

RECURSIVE SortPositionsUpTo(_, _)
SortPositionsUpTo(keys, n) ==
  IF n = 0 THEN <<>>
  ELSE InsertPosition(keys, SortPositionsUpTo(keys, n - 1), n)

SortPositions(keys) == SortPositionsUpTo(keys, Len(keys))

-----------------------------------------------------------------------------
(* The program: filtering and the top-message ranking *)

LikedAMessage == <<108, 105, 107, 101, 100, 32, 97, 32, 109, 101, 115, 115, 97, 103, 101>>
Attachment == <<97, 116, 116, 97, 99, 104, 109, 101, 110, 116>>
Like == <<108, 105, 107, 101>>

\* { ...msg, content: c }
WithContent(msg, c) ==
  [f \in DOMAIN msg \cup {"content"} |-> IF f = "content" THEN c ELSE msg[f]]

\* As PassesFilter, without the toLowerCase() before each includes.
PassesFilterCaseSensitive(msg) ==
  /\ msg.content /= <<>>
  /\ ~Includes(msg.content, LikedAMessage)
  /\ ~Includes(msg.content, Attachment)
  /\ ~Includes(msg.content, Like)
  /\ ~HasNonAscii(msg.content)

\* The predicate of filterMessages' .filter on a message with trimmed content.
PassesFilter(msg) ==
  /\ msg.content /= <<>>
  /\ ~Includes(ToLowerCase(msg.content), LikedAMessage)
  /\ ~Includes(ToLowerCase(msg.content), Attachment)
  /\ ~Includes(ToLowerCase(msg.content), Like)
  /\ ~HasNonAscii(msg.content)

filterMessages(messages) ==
  LET mapped == [i \in 1..Len(messages) |->
                   WithContent(messages[i], StringTrim(messages[i].content))]
  IN  SelectSeqBy(mapped, {i \in 1..Len(mapped) : PassesFilter(mapped[i])})

\* messageCounts after the forEach over the first n filtered messages.
RECURSIVE CountContents(_, _)
CountContents(filtered, n) ==
  IF n = 0 THEN EmptyObject
  ELSE LET o == CountContents(filtered, n - 1)
           c == filtered[n].content
       IN  ObjSet(o, c, (IF HasOwn(o, c) THEN ObjGet(o, c) ELSE 0) + 1)

\* Object.entries(messageCounts).sort((a, b) => b[1] - a[1]).slice(0, 7)
SortedMessages(messageCounts) ==
  LET entries == ObjectEntries(messageCounts)
      order == SortPositions([i \in 1..Len(entries) |-> 0 - entries[i].val])
  IN  ArraySlice([i \in 1..Len(order) |-> entries[order[i]]], 0, TopLimit)

\* The labels and the data of the one dataset of the returned chart.
getTopMessages(messages) ==
  LET filteredMessages == filterMessages(messages)
      sortedMessages ==
        SortedMessages(CountContents(filteredMessages, Len(filteredMessages)))
  IN  [labels |-> [i \in 1..Len(sortedMessages) |-> sortedMessages[i].key],
       data |-> [i \in 1..Len(sortedMessages) |-> sortedMessages[i].val]]

-----------------------------------------------------------------------------
(* The program: the chronological selectors *)

\* msg.timestamp_ms as a condition: undefined and 0 are falsy.
TruthyTimestamp(msg) == "timestamp_ms" \in DOMAIN msg /\ msg.timestamp_ms /= 0

getSortedMessagesAscending(messages) ==
  LET kept == SelectSeqBy(messages,
                {i \in 1..Len(messages) : TruthyTimestamp(messages[i])})
      order == SortPositions([i \in 1..Len(kept) |-> kept[i].timestamp_ms])
  IN  [i \in 1..Len(order) |-> kept[order[i]]]

getLatestMessages(messages, n) ==
  ArraySliceFrom(getSortedMessagesAscending(messages), 0 - n)

getEarliestMessages(messages, n) ==
  ArraySlice(getSortedMessagesAscending(messages), 0, n)

-----------------------------------------------------------------------------
(* The program: the upload callback reader.onload *)

NoData == [isNull |-> TRUE, obj |-> EmptyObject]

\* A null element of json.messages.
JsNull == [isNull |-> TRUE]

\* msg.content || "" and msg.sender_name || "": absent and "" give "".
FieldOrEmpty(msg, f) == IF f \in DOMAIN msg THEN msg[f] ELSE <<>>

\* { ...msg, content: decodedContent, sender_name: decodedSenderName }
DecodedMessage(msg, c, s) ==
  [f \in DOMAIN msg \cup {"content", "sender_name"} |->
     IF f = "content" THEN c ELSE IF f = "sender_name" THEN s ELSE msg[f]]

\* One run of the forEach callback on msg, from the loop state st =
\* [threw, um, errors]: threw is an exception leaving the forEach, errors
\* counts the calls of console.error.
ForEachStep(st, msg) ==
  IF st.threw THEN st
  ELSE IF msg = JsNull THEN [st EXCEPT !.threw = TRUE]
  ELSE LET decodedContent == Utf8Decode(FieldOrEmpty(msg, "content"))
           decodedSenderName == Utf8Decode(FieldOrEmpty(msg, "sender_name"))
       IN  IF ~decodedContent.ok \/ ~decodedSenderName.ok
           THEN [st EXCEPT !.errors = @ + 1]
           ELSE LET k == decodedSenderName.val
                    um1 == IF HasOwn(st.um, k) THEN st.um ELSE ObjSet(st.um, k, <<>>)
                    m == DecodedMessage(msg, decodedContent.val, k)
                IN  [st EXCEPT !.um = ObjSet(um1, k, Append(ObjGet(um1, k), m))]

RECURSIVE ForEachMessage(_, _, _)
ForEachMessage(start, messages, n) ==
  IF n = 0 THEN [threw |-> FALSE, um |-> start, errors |-> 0]
  ELSE ForEachStep(ForEachMessage(start, messages, n - 1), messages[n])

\* As ReaderOnload, with userMessages starting from the held dataset
\* instead of {}.
ReaderOnloadMerging(prev, file) ==
  IF file.kind /= "ok"
  THEN [data |-> prev, ok |-> FALSE, escaped |-> FALSE, errors |-> 1]
  ELSE LET loop == ForEachMessage(prev.obj, file.messages, Len(file.messages))
       IN  IF loop.threw
           THEN [data |-> prev, ok |-> FALSE, escaped |-> FALSE,
                 errors |-> loop.errors + 1]
           ELSE [data |-> [isNull |-> FALSE, obj |-> loop.um], ok |-> TRUE,
                 escaped |-> FALSE, errors |-> loop.errors]

\* As ReaderOnload, with setData(userMessages) after the catch instead of
\* at the end of the try block.
ReaderOnloadSetsAnyway(prev, file) ==
  IF file.kind /= "ok"
  THEN [data |-> [isNull |-> FALSE, obj |-> EmptyObject], ok |-> FALSE,
        escaped |-> FALSE, errors |-> 1]
  ELSE LET loop == ForEachMessage(EmptyObject, file.messages, Len(file.messages))
       IN  IF loop.threw
           THEN [data |-> [isNull |-> FALSE, obj |-> loop.um], ok |-> FALSE,
                 escaped |-> FALSE, errors |-> loop.errors + 1]
           ELSE [data |-> [isNull |-> FALSE, obj |-> loop.um], ok |-> TRUE,
                 escaped |-> FALSE, errors |-> loop.errors]

\* The callback on the text of a file, with prev the held dataset: the
\* dataset held afterwards, whether setData ran (ok), whether an exception
\* left the callback (escaped), and the number of console.error calls.
ReaderOnload(prev, file) ==
  IF file.kind /= "ok"
  THEN \* JSON.parse throws, or json.messages has no forEach: the outer catch
       [data |-> prev, ok |-> FALSE, escaped |-> FALSE, errors |-> 1]
  ELSE LET loop == ForEachMessage(EmptyObject, file.messages, Len(file.messages))
       IN  IF loop.threw
           THEN [data |-> prev, ok |-> FALSE, escaped |-> FALSE,
                 errors |-> loop.errors + 1]
           ELSE [data |-> [isNull |-> FALSE, obj |-> loop.um], ok |-> TRUE,
                 escaped |-> FALSE, errors |-> loop.errors]

-----------------------------------------------------------------------------
(* The program: the render *)

\* data ? Object.values(data).flat() : []
AllMessagesOf(d) == IF d.isNull THEN <<>> ELSE Flat(ObjectValues(d.obj))

\* The labels and the data of the one dataset of the sender chart.
getChartData(d) ==
  IF d.isNull THEN [labels |-> <<>>, data |-> <<>>]
  ELSE LET userLabels == ObjectKeys(d.obj)
           messageCounts == [i \in 1..Len(userLabels) |->
                               [user |-> userLabels[i],
                                count |-> Len(ObjGet(d.obj, userLabels[i]))]]
           order == SortPositions([i \in 1..Len(messageCounts) |->
                                     0 - messageCounts[i].count])
           topUsers == ArraySlice([i \in 1..Len(order) |-> messageCounts[order[i]]],
                                  0, TopLimit)
       IN  [labels |-> [i \in 1..Len(topUsers) |-> topUsers[i].user],
            data |-> [i \in 1..Len(topUsers) |-> topUsers[i].count]]

-----------------------------------------------------------------------------
(* Inputs *)

SeqsUpTo(S, n) == UNION {[1..k -> S] : k \in 0..n}

\* Files that JSON.parse rejects, and files whose json.messages is no array.
BadFiles == {[kind |-> k, messages |-> <<>>] : k \in {"invalid", "nomessages"}}

FilesOf(lists) == {[kind |-> "ok", messages |-> m] : m \in lists} \cup BadFiles

\* Raw messages of the upload life cycle: sender A says "hi" at time 1; sender
\* B sends the bytes C3 A9 (a double-encoded e-acute) without a timestamp.
RawPool ==
  { [sender_name |-> <<65>>, content |-> <<104, 105>>, timestamp_ms |-> 1],
    [sender_name |-> <<66>>, content |-> <<195, 169>>] }

Files == FilesOf(SeqsUpTo(RawPool, MaxMsgs))

NoRun == [ran |-> FALSE, file |-> [kind |-> "invalid", messages |-> <<>>],
          ok |-> FALSE, escaped |-> FALSE, errors |-> 0]

-----------------------------------------------------------------------------
(* The upload life cycle *)

RemoveAt(s, i) == SubSeq(s, 1, i - 1) \o SubSeq(s, i + 1, Len(s))

Init ==
  /\ data = NoData
  /\ inflight = <<>>
  /\ last = NoRun
  /\ allMessages = <<>>
  /\ count = RenderCount
  /\ latestMessages = <<>>
  /\ earliestMessages = <<>>
  /\ pc = "done"

\* handleFileUpload with a file chosen: reader.readAsText(file).
HandleFileUpload(file) ==
  /\ Len(inflight) < MaxInFlight
  /\ inflight' = Append(inflight, file)
  /\ UNCHANGED <<data, last, allMessages, count, latestMessages, earliestMessages, pc>>

\* handleFileUpload with no file chosen: nothing happens.
HandleFileUploadNoFile == UNCHANGED vars

\* The read of inflight[i] completes: reader.onload runs to its end, and the
\* component renders from the dataset it then holds.
FileReadCompletes(i) ==
  \E r \in {ReaderOnload(data, inflight[i])} :
    /\ data' = r.data
    /\ last' = [ran |-> TRUE, file |-> inflight[i], ok |-> r.ok,
                escaped |-> r.escaped, errors |-> r.errors]
    /\ inflight' = RemoveAt(inflight, i)
    /\ allMessages' = AllMessagesOf(data')
    /\ count' = RenderCount
    /\ latestMessages' = getLatestMessages(allMessages', RenderCount)
    /\ earliestMessages' = getEarliestMessages(allMessages', RenderCount)
    /\ pc' = "done"

Next ==
  \/ \E file \in Files : HandleFileUpload(file)
  \/ HandleFileUploadNoFile
  \/ \E i \in 1..Len(inflight) : FileReadCompletes(i)

Spec == Init /\ [][Next]_vars

-----------------------------------------------------------------------------
(* A single upload, over a richer set of files.  A file is a fixed head of  *)
(* k messages with k distinct senders "A", "B", ... and k distinct contents *)
(* "a", "b", ..., in ascending or descending order, followed by a varied    *)
(* tail drawn from RichPool.                                                *)

RichPool ==
  { [sender_name |-> <<65>>, content |-> <<104, 105>>, timestamp_ms |-> 1],       \* A: "hi"
    [sender_name |-> <<66>>, content |-> <<32, 104, 105, 32>>, timestamp_ms |-> 2], \* B: " hi "
    [sender_name |-> <<65>>, content |-> <<98>>],                                  \* A: "b"
    [sender_name |-> <<49>>, content |-> <<49>>, timestamp_ms |-> 0],              \* 1: "1"
    [sender_name |-> <<66>>, content |-> <<49, 48>>],                              \* B: "10"
    [sender_name |-> <<65>>, content |-> <<195, 169>>, timestamp_ms |-> 3],        \* A: C3 A9
    [sender_name |-> <<66>>, content |-> <<73, 32, 76, 73, 75, 69>>],              \* B: "I LIKE"
    [sender_name |-> <<65>>, content |-> <<65, 116, 116, 97, 99, 104, 109, 101, 110, 116>>], \* A: "Attachment"
    [sender_name |-> <<65>>, content |-> <<233>>, timestamp_ms |-> 4],             \* A: E9
    [content |-> <<32, 32>>],                                                      \* no sender: "  "
    JsNull }

HeadMessage(k) ==
  [sender_name |-> <<64 + k>>, content |-> <<96 + k>>, timestamp_ms |-> k]

HeadList(k, ascending) ==
  [i \in 1..k |-> HeadMessage(IF ascending THEN i ELSE k + 1 - i)]

RichLists ==
  { HeadList(k, asc) \o t :
      k \in 0..MaxDistinct, asc \in BOOLEAN, t \in SeqsUpTo(RichPool, MaxLen) }

RichFiles == FilesOf(RichLists)

InitUpload ==
  /\ data = NoData
  /\ inflight \in {<<f>> : f \in RichFiles}
  /\ last = NoRun
  /\ allMessages = <<>>
  /\ count = RenderCount
  /\ latestMessages = <<>>
  /\ earliestMessages = <<>>
  /\ pc = "done"

NextUpload == \E i \in 1..Len(inflight) : FileReadCompletes(i)

SpecUpload == InitUpload /\ [][NextUpload]_vars

-----------------------------------------------------------------------------
(* The chronological selectors on their own, for every count *)

TimedMessage(i, t) ==
  [sender_name |-> <<65>>, content |-> <<104, 105>>, id |-> i, timestamp_ms |-> t]

UntimedMessage(i) == [sender_name |-> <<65>>, content |-> <<104, 105>>, id |-> i]

\* Lists of messages told apart by id; each has a timestamp_ms in 0..MaxTime
\* or none.
ChronoLists ==
  UNION { { [i \in 1..k |-> IF ts[i] < 0 THEN UntimedMessage(i)
                                         ELSE TimedMessage(i, ts[i])] :
              ts \in [1..k -> -1..MaxTime] } : k \in 0..MaxChrono }

InitChrono ==
  /\ data = NoData
  /\ inflight = <<>>
  /\ last = NoRun
  /\ allMessages \in ChronoLists
  /\ count \in (0 - MaxCount)..MaxCount
  /\ latestMessages = <<>>
  /\ earliestMessages = <<>>
  /\ pc = "call"

Select ==
  /\ pc = "call"
  /\ latestMessages' = getLatestMessages(allMessages, count)
  /\ earliestMessages' = getEarliestMessages(allMessages, count)
  /\ pc' = "done"
  /\ UNCHANGED <<data, inflight, last, allMessages, count>>

SpecChrono == InitChrono /\ [][Select]_vars

-----------------------------------------------------------------------------
(* Properties of the upload callback *)

IsParseError(file) == file.kind /= "ok"

\* The step is the completion of the read of inflight[i].
Completes(i) == i \in 1..Len(inflight) /\ inflight' = RemoveAt(inflight, i)

RECURSIVE SumLengths(_)
SumLengths(ss) == IF ss = <<>> THEN 0 ELSE Len(Head(ss)) + SumLengths(Tail(ss))

\* The number of messages a dataset holds, over all senders.
TotalCount(d) == IF d.isNull THEN 0 ELSE SumLengths(ObjectValues(d.obj))

\* The file's raw messages are all records (none is null).
AllRecords(file) == JsNull \notin Range(file.messages)

\* C1: normalization of any list of raw records does not throw and yields a
\* mapping whose sequences' lengths sum to the length of the list, a record
\* whose content or sender_name is not UTF-8 included.
C1_NormalizeKeepsEveryMessage ==
  (last.ran /\ last.file.kind = "ok" /\ AllRecords(last.file))
    => /\ last.ok
       /\ ~last.escaped
       /\ ~data.isNull
       /\ TotalCount(data) = Len(last.file.messages)

\* C2: when the read that completes delivered text that is not valid JSON or
\* has no messages array, the dataset held after the callback is the dataset
\* held before it, and no exception leaves the callback.
C2_ParseErrorKeepsData ==
  [][\A i \in 1..Len(inflight) :
       (Completes(i) /\ IsParseError(inflight[i]))
         => (data' = data /\ ~last'.ok /\ ~last'.escaped)]_vars

\* C2 witness: a callback has failed on a file without a messages array
\* while the dataset of an earlier upload was held.
C2_Witness ==
  /\ last.ran
  /\ last.file.kind = "nomessages"
  /\ ~data.isNull
  /\ data.obj /= EmptyObject

\* The decoded form of a raw record whose fields are UTF-8.
Decoded(msg) ==
  DecodedMessage(msg, Utf8Decode(FieldOrEmpty(msg, "content")).val,
                 Utf8Decode(FieldOrEmpty(msg, "sender_name")).val)

\* d holds exactly the messages of the list messages, all of them records
\* with UTF-8 fields: under each sender the decoded messages of that sender,
\* in the order of the list, and no other sender.
DatasetIsOf(d, messages) ==
  LET dec == [i \in 1..Len(messages) |-> Decoded(messages[i])]
      Of(k) == SelectSeqBy(dec, {i \in 1..Len(dec) : dec[i].sender_name = k})
  IN  /\ ~d.isNull
      /\ \A i, j \in 1..Len(d.obj) : d.obj[i].key = d.obj[j].key => i = j
      /\ {d.obj[i].key : i \in 1..Len(d.obj)} = {dec[i].sender_name : i \in 1..Len(dec)}
      /\ \A i \in 1..Len(d.obj) : d.obj[i].val = Of(d.obj[i].key)

\* C9: under any interleaving of upload starts and read completions, a
\* completion whose callback succeeds leaves exactly the dataset of the file
\* it read, with nothing of the dataset held before or of a read in flight,
\* and no other step changes the dataset: the dataset held is that of the
\* latest read that completed successfully.
C9_ReplacedWholesale ==
  [][/\ \A i \in 1..Len(inflight) :
          (Completes(i) /\ last'.ran /\ last'.ok)
            => DatasetIsOf(data', inflight[i].messages)
     /\ (~last'.ok \/ Len(inflight') >= Len(inflight)) => data' = data]_vars

\* C9 witness: a read has completed successfully, replacing a dataset, while
\* the read of another file with messages is still in flight.
C9_Witness ==
  /\ last.ran /\ last.ok
  /\ Len(last.file.messages) = MaxMsgs
  /\ Len(inflight) = 1
  /\ inflight[1].kind = "ok"
  /\ inflight[1].messages /= <<>>
  /\ inflight[1] /= last.file
  /\ TotalCount(data) = MaxMsgs

-----------------------------------------------------------------------------
(* Properties of the rankings, on the views of the latest render *)

TopMessages == getTopMessages(allMessages)

ChartData == getChartData(data)

\* s contains sub, letters of s compared without regard to case (sub is in
\* lower case, s is ASCII).
ContainsIgnoringCase(s, sub) ==
  \E i \in 0..(Len(s) - Len(sub)) :
    \A j \in 1..Len(sub) :
      \/ s[i + j] = sub[j]
      \/ (sub[j] \in 97..122 /\ s[i + j] = sub[j] - 32)

\* The filtering policy, on a label.
SatisfiesPolicy(label) ==
  /\ label /= <<>>
  /\ label[1] \notin WhiteSpace
  /\ label[Len(label)] \notin WhiteSpace
  /\ \A i \in 1..Len(label) : label[i] \in 0..127
  /\ ~ContainsIgnoringCase(label, LikedAMessage)
  /\ ~ContainsIgnoringCase(label, Attachment)
  /\ ~ContainsIgnoringCase(label, Like)

\* C3: getTopMessages returns at most 7 labels, each a trimmed, non-empty,
\* ASCII-only string that contains none of "liked a message", "attachment"
\* and "like" in any case.
C3_TopMessagesFiltered ==
  LET top == TopMessages
  IN  /\ Len(top.labels) <= TopLimit
      /\ \A i \in 1..Len(top.labels) : SatisfiesPolicy(top.labels[i])

\* C3 witness: more than 7 distinct contents pass the filter and 7 labels are
\* returned, while the list also holds a content with "like" in capitals,
\* one with a non-ASCII character and one with surrounding white space.
C3_Witness ==
  /\ last.ran /\ last.ok
  /\ Len(TopMessages.labels) = TopLimit
  /\ Cardinality({m.content : m \in Range(filterMessages(allMessages))}) > TopLimit
  /\ \E m \in Range(allMessages) :
       ContainsIgnoringCase(m.content, Like) /\ ~Includes(m.content, Like)
  /\ \E m \in Range(allMessages) : HasNonAscii(m.content) \/ StringTrim(m.content) /= m.content

\* The trimmed contents of the messages that pass the filter, in input order.
FilteredContents(messages) ==
  LET f == filterMessages(messages) IN [i \in 1..Len(f) |-> f[i].content]

\* The first position of x in the sequence s (x occurs in s).
FirstIndex(s, x) == CHOOSE i \in 1..Len(s) : s[i] = x /\ \A j \in 1..(i - 1) : s[j] /= x

Occurrences(s, x) == Cardinality({i \in 1..Len(s) : s[i] = x})

\* C4: the entries of getTopMessages are in descending order of count, each
\* value is the number of filtered messages with exactly that content, and
\* distinct contents with equal counts are in the order in which they were
\* first seen in the input, whatever the contents are.
C4_TopMessagesRanked ==
  LET top == TopMessages
      seen == FilteredContents(allMessages)
  IN  \A i \in 1..Len(top.labels) :
        /\ top.data[i] = Occurrences(seen, top.labels[i])
        /\ \A j \in (i + 1)..Len(top.labels) :
             /\ top.data[i] >= top.data[j]
             /\ top.data[i] = top.data[j]
                  => FirstIndex(seen, top.labels[i]) < FirstIndex(seen, top.labels[j])

\* C5: the sender ranking has at most 7 entries, each value is the length of
\* that sender's sequence, the entries are in descending order of value, and
\* senders with equal counts are in the order in which their keys first
\* appeared in the mapping, whatever the sender names are.
C5_SendersRanked ==
  LET chart == ChartData
      keys == [i \in 1..Len(data.obj) |-> data.obj[i].key]
  IN  /\ Len(chart.labels) <= TopLimit
      /\ \A i \in 1..Len(chart.labels) :
           /\ HasOwn(data.obj, chart.labels[i])
           /\ chart.data[i] = Len(ObjGet(data.obj, chart.labels[i]))
           /\ \A j \in (i + 1)..Len(chart.labels) :
                /\ chart.data[i] >= chart.data[j]
                /\ chart.data[i] = chart.data[j]
                     => FirstIndex(keys, chart.labels[i]) < FirstIndex(keys, chart.labels[j])

\* C10: every uploaded message whose content has a non-ASCII character is
\* absent from the labels of getTopMessages, and is counted in the value of
\* its sender in the sender ranking of the same dataset.
C10_NonAsciiCountedBySender ==
  (last.ran /\ last.file.kind = "ok" /\ AllRecords(last.file))
    => \A i \in 1..Len(last.file.messages) :
         LET msg == last.file.messages[i]
             sender == FieldOrEmpty(msg, "sender_name")
             bySender == {j \in 1..Len(last.file.messages) :
                            FieldOrEmpty(last.file.messages[j], "sender_name") = sender}
         IN  (HasNonAscii(FieldOrEmpty(msg, "content")) /\ ~HasNonAscii(sender))
               => /\ FieldOrEmpty(msg, "content") \notin Range(TopMessages.labels)
                  /\ \E p \in 1..Len(ChartData.labels) :
                       /\ ChartData.labels[p] = sender
                       /\ ChartData.data[p] = Cardinality(bySender)

-----------------------------------------------------------------------------
(* Properties of the chronological selectors *)

Ids(messages) == {messages[i].id : i \in 1..Len(messages)}

Present(messages) ==
  SelectSeqBy(messages, {i \in 1..Len(messages) : "timestamp_ms" \in DOMAIN messages[i]})

\* s is the messages of the list messages that have a timestamp_ms, each
\* once, in ascending order of timestamp_ms, equal ones in input order (the
\* ids of a list ascend).
IsSortedPresent(s, messages) ==
  /\ Len(s) = Len(Present(messages))
  /\ Range(s) = Range(Present(messages))
  /\ \A i, j \in 1..Len(s) :
       i < j => \/ s[i].timestamp_ms < s[j].timestamp_ms
                \/ (s[i].timestamp_ms = s[j].timestamp_ms /\ s[i].id < s[j].id)

\* C6: for every n <= 0, getEarliestMessages and getLatestMessages return
\* the empty sequence.
C6_NonPositiveCountIsEmpty ==
  (pc = "done" /\ count <= 0) => (earliestMessages = <<>> /\ latestMessages = <<>>)

\* C7: for every n greater than the number of messages with a timestamp_ms
\* (0 included), both selectors return all of those messages, sorted
\* ascending by timestamp_ms with ties in input order.
C7_LargeCountReturnsAllTimed ==
  (pc = "done" /\ count > Len(Present(allMessages)))
    => /\ IsSortedPresent(earliestMessages, allMessages)
       /\ IsSortedPresent(latestMessages, allMessages)

\* C8: when every message has a timestamp_ms (0 included) and
\* 1 <= n <= count/2, no message is returned by both selectors.
C8_EarliestLatestDisjoint ==
  (/\ pc = "done"
   /\ Present(allMessages) = allMessages
   /\ 1 <= count
   /\ 2 * count <= Len(allMessages))
    => Ids(earliestMessages) \cap Ids(latestMessages) = {}

=============================================================================
